---- MODULE Spec2Model ----
(***************************************************************************)
(* Model of cord19q's ETL entry point, src/python/cord19q/etl/execute.py:  *)
(* run() rebuilds articles.db from metadata.csv and the side-car documents *)
(* articles/<uid>.json.  One action per statement group of run(); the      *)
(* store is SQLite as the code uses it (two tables with primary keys, an   *)
(* implicit transaction made durable by commit).                           *)
(***************************************************************************)
EXTENDS Integers, Sequences, FiniteSets, TLC

VARIABLES
    metadata,    \* rows of metadata.csv, in file order (input, never written)
    sidecars,    \* uid -> content of articles/<uid>.json (input, never written)
    file,        \* articles.db on disk: what a later process would read
    db,          \* the sqlite3 connection of this run and what it sees
    pc,          \* position of run()
    rowIdx,      \* position of the csv.DictReader loop
    uid,         \* run(): uid of the current row
    sections,    \* run(): sections of the current row
    tags,        \* run(): tags of the current row
    secIdx,      \* position of the "for text in sections" loop
    index,       \* run(): index
    sid,         \* run(): sid
    log,         \* lines printed by this run
    error,       \* the exception that ended this run, if any
    runs,        \* number of times run() has been started
    firstFinal   \* articles.db as left by the first run that reached db.close()

vars == <<metadata, sidecars, file, db, pc, rowIdx, uid, sections, tags,
          secIdx, index, sid, log, error, runs, firstFinal>>

-----------------------------------------------------------------------------
(* Bounds *)

MaxRows == 2
MaxRuns == 2

-----------------------------------------------------------------------------
(* Text.  Strings the code inspects are sequences of characters. *)

TitleCovid == <<"C","O","V","I","D","-","1","9">>
TitleFlu == <<"F","l","u">>
BodySars == <<"S","A","R","S","-","C","o","V","-","2">>
BodyRna == <<"R","N","A">>

Titles == {TitleCovid, TitleFlu}

UpperAlpha == <<"A","B","C","D","E","F","G","H","I","J","K","L","M",
                "N","O","P","Q","R","S","T","U","V","W","X","Y","Z">>
LowerAlpha == <<"a","b","c","d","e","f","g","h","i","j","k","l","m",
                "n","o","p","q","r","s","t","u","v","w","x","y","z">>

LowerChar(c) ==
    IF \E i \in DOMAIN UpperAlpha : UpperAlpha[i] = c
    THEN LowerAlpha[CHOOSE i \in DOMAIN UpperAlpha : UpperAlpha[i] = c]
    ELSE c

\* str.lower()
Lower(text) == [i \in 1..Len(text) |-> LowerChar(text[i])]

\* the "in" operator on strings: kw is a substring of text
Contains(text, kw) ==
    \E i \in 1..(Len(text) - Len(kw) + 1) : SubSeq(text, i, i + Len(kw) - 1) = kw

keywords == { <<"2","0","1","9","-","n","c","o","v">>,
              <<"c","o","v","i","d","-","1","9">>,
              <<"s","a","r","s","-","c","o","v","-","2">> }

None == "None"
TagLabel == "COVID-19"

\* getTags(sections)
getTags(secs) ==
    IF \E i \in DOMAIN secs : \E k \in keywords : Contains(Lower(secs[i]), k)
    THEN TagLabel
    ELSE None

-----------------------------------------------------------------------------
(* Identity *)

\* hashlib.sha1(title.encode("utf-8")).hexdigest()
Sha1Hex(title) ==
    CASE title = TitleCovid -> "991e0f98103366285137d4fc0cffdced2d58334c"
      [] title = TitleFlu -> "33372da1a79effe2c3f64d13161ea1317efdb8bb"

\* values of the sha column: empty, an upstream checksum, or a checksum that
\* happens to equal the digest of another row's title
Shas == {"", "s1", Sha1Hex(TitleFlu)}

MetadataRows == [sha : Shas, title : Titles]

\* getId(row)
getId(row) == IF row.sha = "" THEN Sha1Hex(row.title) ELSE row.sha

Uids == {getId(r) : r \in MetadataRows}

-----------------------------------------------------------------------------
(* Side-car documents *)

SideCars == { [kind |-> "absent", body |-> <<>>],
              [kind |-> "unparsable", body |-> <<>>],
              [kind |-> "nobody", body |-> <<>>],
              [kind |-> "ok", body |-> <<BodyRna>>],
              [kind |-> "ok", body |-> <<BodyRna, BodySars>>] }

\* read(directory, uid): raises on a document json.load rejects or one
\* without body_text / text, else the body paragraphs in document order
read(doc) ==
    CASE doc.kind = "absent" -> [raised |-> FALSE, sections |-> <<>>]
      [] doc.kind = "ok" -> [raised |-> FALSE, sections |-> doc.body]
      [] OTHER -> [raised |-> TRUE, sections |-> <<>>]

\* the title appended after the body instead of before it
SectionListTitleLast(title, body) == body \o <<title>>

\* run(): sections = [row["title"]] + read(directory, uid)
SectionList(title, body) == <<title>> \o body

-----------------------------------------------------------------------------
(* Store *)

TableNames == {"articles", "sections"}

NoFile == [exists |-> FALSE, tables |-> {}, articles |-> <<>>, sections |-> <<>>]

\* an articles.db left behind by a run over a different corpus
OtherStore ==
    [exists |-> TRUE, tables |-> TableNames,
     articles |-> << [id |-> "s1", title |-> TitleCovid, tags |-> TagLabel, ord |-> 1] >>,
     sections |-> << [id |-> 0, article |-> "s1", text |-> TitleCovid,
                      tags |-> TagLabel, ord |-> 2] >>]

PriorStores == {NoFile, OtherStore}

ClosedDb == [open |-> FALSE, tables |-> {}, articles |-> <<>>, sections |-> <<>>, clock |-> 0]

\* run() without the os.remove: the existing file is opened as it is
KeepExisting(f) == f

\* run(): if os.path.exists(dbfile): os.remove(dbfile)
DeleteExisting(f) == NoFile

\* sqlite3.connect(dbfile): opens the file, creating it when missing
Connect(f) ==
    [open |-> TRUE, tables |-> f.tables, articles |-> f.articles,
     sections |-> f.sections, clock |-> Len(f.articles) + Len(f.sections)]

\* a schema without the PRIMARY KEY constraint
PrimaryKeyUnchecked(rows, key) == FALSE

\* the PRIMARY KEY of ARTICLES / SECTIONS: a key already present is rejected
PrimaryKeyViolated(rows, key) == \E i \in DOMAIN rows : rows[i].id = key

\* values(table, row, columns) on an INTEGER column: int(value) if value else 0
IntValue(v) == IF v = 0 THEN 0 ELSE v

\* INSERT OR REPLACE in place of INSERT: a present key is replaced, not rejected
ExecuteOrReplace(tables, name, rows, row, clock) ==
    IF name \notin tables
    THEN [ok |-> FALSE, rows |-> rows]
    ELSE [ok |-> TRUE,
          rows |-> Append(SelectSeq(rows, LAMBDA r : r.id # row.id),
                          [row EXCEPT !.ord = clock + 1])]

\* db.execute(INSERT_ROW ...): the rows of the table afterwards, and whether
\* the statement raised
Execute(tables, name, rows, row, clock) ==
    IF name \notin tables \/ PrimaryKeyViolated(rows, row.id)
    THEN [ok |-> FALSE, rows |-> rows]
    ELSE [ok |-> TRUE, rows |-> Append(rows, [row EXCEPT !.ord = clock + 1])]

\* insert(): except Exception as ex: print("Error inserting row: {}".format(row[0]), ex)
InsertLog(lg, ok, name, row) ==
    IF ok THEN lg
    ELSE Append(lg, [kind |-> "insert_error", table |-> name, key |-> row.id])

\* insert() without its try/except: a rejected statement leaves run()
AfterInsertRaise(ok, next) == IF ok THEN next ELSE "aborted"

\* insert() returns normally whether or not the statement raised
AfterInsert(ok, next) == next

ProgressEvery == 1000

-----------------------------------------------------------------------------
(* Initial state: a corpus, and whatever articles.db an earlier run left *)

Init ==
    /\ metadata \in UNION {[1..n -> MetadataRows] : n \in 0..MaxRows}
    /\ sidecars \in [Uids -> SideCars]
    /\ file \in PriorStores
    /\ db = ClosedDb
    /\ pc = "start"
    /\ rowIdx = 1
    /\ uid = ""
    /\ sections = <<>>
    /\ tags = None
    /\ secIdx = 1
    /\ index = 0
    /\ sid = 0
    /\ log = <<>>
    /\ error = "none"
    /\ runs = 1
    /\ firstFinal = NoFile

locals == <<rowIdx, uid, sections, tags, secIdx, index, sid>>
corpus == <<metadata, sidecars>>

\* an uncaught exception leaves run(): the process ends, nothing is committed
Abort(cause) ==
    /\ pc' = "aborted"
    /\ error' = cause
    /\ db' = ClosedDb

\* run() lines 250-264: banner, delete the existing file, connect
OpenStore ==
    /\ pc = "start"
    /\ file' = [DeleteExisting(file) EXCEPT !.exists = TRUE]
    /\ db' = Connect(DeleteExisting(file))
    /\ log' = Append(log, [kind |-> "banner"])
    /\ pc' = "create_articles"
    /\ UNCHANGED <<corpus, locals, error, runs, firstFinal>>

\* create(db, table, name): CREATE TABLE IF NOT EXISTS runs outside any
\* transaction; when it raises, the handler prints the statement and then
\* evaluates "Failed to create table: " + e, a str + Exception TypeError
Create(name, next) ==
    \/ /\ db' = [db EXCEPT !.tables = @ \cup {name}]
       /\ file' = [file EXCEPT !.tables = @ \cup {name}]
       /\ pc' = next
       /\ UNCHANGED <<log, error>>
    \/ /\ log' = Append(log, [kind |-> "create_statement", table |-> name])
       /\ Abort("create")
       /\ UNCHANGED file

\* run() line 267
CreateArticles ==
    /\ pc = "create_articles"
    /\ Create("articles", "create_sections")
    /\ UNCHANGED <<corpus, locals, runs, firstFinal>>

\* run() line 270
CreateSections ==
    /\ pc = "create_sections"
    /\ Create("sections", "next_row")
    /\ UNCHANGED <<corpus, locals, runs, firstFinal>>

\* run() lines 277-288: next csv row, getId, read, getTags
NextRow ==
    /\ pc = "next_row"
    /\ rowIdx <= Len(metadata)
    /\ LET row == metadata[rowIdx]
           id == getId(row)
           r == read(sidecars[id])
       IN  /\ uid' = id
           /\ IF r.raised
              THEN /\ Abort("sidecar")
                   /\ UNCHANGED <<sections, tags>>
              ELSE /\ sections' = SectionList(row.title, r.sections)
                   /\ tags' = getTags(SectionList(row.title, r.sections))
                   /\ pc' = "insert_article"
                   /\ UNCHANGED <<db, error>>
    /\ UNCHANGED <<corpus, file, rowIdx, secIdx, index, sid, log, runs, firstFinal>>

\* run() lines 292-298: insert the article row, count it, report progress
InsertArticle ==
    /\ pc = "insert_article"
    /\ LET row == [id |-> uid, title |-> metadata[rowIdx].title, tags |-> tags, ord |-> 0]
           res == Execute(db.tables, "articles", db.articles, row, db.clock)
           lg == InsertLog(log, res.ok, "articles", row)
       IN  /\ db' = [db EXCEPT !.articles = res.rows,
                               !.clock = IF res.ok THEN @ + 1 ELSE @]
           /\ index' = index + 1
           /\ log' = IF (index + 1) % ProgressEvery = 0
                     THEN Append(lg, [kind |-> "progress", count |-> index + 1])
                     ELSE lg
           /\ pc' = AfterInsert(res.ok, "insert_section")
    /\ secIdx' = 1
    /\ UNCHANGED <<corpus, file, rowIdx, uid, sections, tags, sid, error, runs, firstFinal>>

\* run() lines 301-304: one iteration of "for text in sections"
InsertSection ==
    /\ pc = "insert_section"
    /\ secIdx <= Len(sections)
    /\ LET row == [id |-> IntValue(sid), article |-> uid, text |-> sections[secIdx],
                   tags |-> tags, ord |-> 0]
           res == Execute(db.tables, "sections", db.sections, row, db.clock)
           last == secIdx = Len(sections)
       IN  /\ db' = [db EXCEPT !.sections = res.rows,
                               !.clock = IF res.ok THEN @ + 1 ELSE @]
           /\ log' = InsertLog(log, res.ok, "sections", row)
           /\ sid' = sid + 1
           /\ secIdx' = secIdx + 1
           /\ rowIdx' = IF last THEN rowIdx + 1 ELSE rowIdx
           /\ pc' = AfterInsert(res.ok, IF last THEN "next_row" ELSE "insert_section")
    /\ UNCHANGED <<corpus, file, uid, sections, tags, index, error, runs, firstFinal>>

\* run() line 306: print("Total rows inserted: {}".format(index))
Summary ==
    /\ pc = "next_row"
    /\ rowIdx > Len(metadata)
    /\ log' = Append(log, [kind |-> "total", count |-> index])
    /\ pc' = "commit"
    /\ UNCHANGED <<corpus, file, db, locals, error, runs, firstFinal>>

\* run() line 309: db.commit()
Commit ==
    /\ pc = "commit"
    /\ file' = [exists |-> TRUE, tables |-> db.tables,
                articles |-> db.articles, sections |-> db.sections]
    /\ pc' = "close"
    /\ UNCHANGED <<corpus, db, locals, log, error, runs, firstFinal>>

\* run() line 310: db.close()
Close ==
    /\ pc = "close"
    /\ db' = ClosedDb
    /\ pc' = "done"
    /\ firstFinal' = IF firstFinal.exists THEN firstFinal ELSE file
    /\ UNCHANGED <<corpus, file, locals, log, error, runs>>

\* the program is started again over the same corpus; articles.db is what the
\* previous run left, or a store some other run left in its place
Rerun ==
    /\ pc \in {"done", "aborted"}
    /\ runs < MaxRuns
    /\ runs' = runs + 1
    /\ file' \in PriorStores \cup {file}
    /\ db' = ClosedDb
    /\ pc' = "start"
    /\ rowIdx' = 1
    /\ uid' = ""
    /\ sections' = <<>>
    /\ tags' = None
    /\ secIdx' = 1
    /\ index' = 0
    /\ sid' = 0
    /\ log' = <<>>
    /\ error' = "none"
    /\ UNCHANGED <<corpus, firstFinal>>

Next ==
    \/ OpenStore
    \/ CreateArticles
    \/ CreateSections
    \/ NextRow
    \/ InsertArticle
    \/ InsertSection
    \/ Summary
    \/ Commit
    \/ Close
    \/ Rerun

Spec == Init /\ [][Next]_vars

\* run() is sequential code: a step that can be taken is taken
FairSpec == Spec /\ WF_vars(Next)

-----------------------------------------------------------------------------
(* Properties *)

HasId(rows, key) == \E i \in DOMAIN rows : rows[i].id = key

Matches(text) == \E k \in keywords : Contains(Lower(text), k)

Body(doc) == IF doc.kind = "ok" THEN doc.body ELSE <<>>

\* what row i of metadata.csv contributes to the sections table
RowSections(i) ==
    LET t == <<metadata[i].title>> \o Body(sidecars[getId(metadata[i])])
    IN  [j \in 1..Len(t) |-> [article |-> getId(metadata[i]), text |-> t[j]]]

RECURSIVE Flatten(_)
Flatten(k) == IF k = 0 THEN <<>> ELSE Flatten(k - 1) \o RowSections(k)

Terminated == pc \in {"done", "aborted"}

ArticleErrorLogged(key) ==
    \E i \in DOMAIN log :
        /\ log[i].kind = "insert_error"
        /\ log[i].table = "articles"
        /\ log[i].key = key

\* C1: a malformed side-car document of one row keeps no other row from being
\* fully ingested and the run from committing; the malformed row itself is
\* ingested with its title section only.
RowIsolation ==
    (Terminated /\ error # "create") =>
        /\ pc = "done"
        /\ \A i \in 1..Len(metadata) :
              /\ HasId(file.articles, getId(metadata[i]))
              /\ \A j \in DOMAIN RowSections(i) :
                    \E n \in DOMAIN file.sections :
                        /\ file.sections[n].article = RowSections(i)[j].article
                        /\ file.sections[n].text = RowSections(i)[j].text

Referenced(store) ==
    \A n \in DOMAIN store.sections :
        LET owners == {i \in DOMAIN store.articles :
                          store.articles[i].id = store.sections[n].article}
        IN  /\ Cardinality(owners) = 1
            /\ \A i \in owners : store.articles[i].ord < store.sections[n].ord

\* C2: every persisted section row has exactly one persisted article row with
\* the id of its article field, and that article row was inserted before it;
\* also when two rows resolve to one id and an article insert is rejected.
ReferentialIntegrity == Referenced(db) /\ Referenced(file)

\* a section of a row whose own article insert was rejected has been written
ReferentialIntegrityWitness ==
    /\ pc = "next_row"
    /\ rowIdx = 3
    /\ ArticleErrorLogged(uid)
    /\ Len(db.sections) >= 2
    /\ db.sections[Len(db.sections)].article = uid

RejectedInsert ==
    \/ pc = "insert_article" /\ HasId(db.articles, uid)
    \/ pc = "insert_section" /\ HasId(db.sections, sid)

\* C3: a rejected insert is caught and logged with the row's key, leaves the
\* store as it was, and run() goes on with its next statement.
InsertFailureIsolated ==
    [][ (RejectedInsert /\ runs' = runs) =>
            /\ db'.articles = db.articles
            /\ db'.sections = db.sections
            /\ file' = file
            /\ Len(log') = Len(log) + 1
            /\ log'[Len(log')].kind = "insert_error"
            /\ log'[Len(log')].key = (IF pc = "insert_article" THEN uid ELSE sid)
            /\ pc' \in {"insert_section", "next_row"}
            /\ error' = "none" ]_vars

\* a run that had an article insert rejected has committed and closed
InsertFailureIsolatedWitness ==
    /\ pc = "done"
    /\ \E i \in DOMAIN log : log[i].kind = "insert_error"
    /\ Len(file.articles) = 1
    /\ Len(file.sections) >= 2

\* C4: section ids come from one counter, 0, 1, 2, ... in metadata-row order,
\* within a row the title first and then the body paragraphs in document
\* order; a run with N sections persists ids 0..N-1 in that order.
SectionIdOrdering ==
    LET exp == Flatten(Len(metadata))
        InOrder(secs) ==
            /\ Len(secs) <= Len(exp)
            /\ \A n \in DOMAIN secs :
                  /\ secs[n].id = n - 1
                  /\ secs[n].article = exp[n].article
                  /\ secs[n].text = exp[n].text
    IN  /\ InOrder(db.sections)
        /\ db.open => sid = Len(db.sections)
        /\ pc = "done" => (InOrder(file.sections) /\ Len(file.sections) = Len(exp))

\* two rows, the second with two body paragraphs: ids 0..3
SectionIdOrderingWitness ==
    /\ pc = "done"
    /\ Len(metadata) = 2
    /\ Len(file.sections) = 4
    /\ file.sections[1].text = metadata[1].title
    /\ file.sections[2].text = metadata[2].title
    /\ file.sections[3].text = BodyRna
    /\ file.sections[4].text = BodySars
    /\ file.sections[4].id = 3

\* C5: no two persisted article rows share an id; an article insert whose id
\* is already persisted is rejected and reported, and the persisted rows stay
\* as they were.
ArticleIdUnique ==
    [][ /\ \A i, j \in DOMAIN db'.articles :
              db'.articles[i].id = db'.articles[j].id => i = j
        /\ (pc = "insert_article" /\ HasId(db.articles, uid)) =>
              /\ db'.articles = db.articles
              /\ log'[Len(log')].kind = "insert_error"
              /\ log'[Len(log')].key = uid ]_vars

\* a second row with the id of the first but another title was rejected
ArticleIdUniqueWitness ==
    /\ Len(metadata) = 2
    /\ metadata[1].title # metadata[2].title
    /\ ArticleErrorLogged(getId(metadata[2]))
    /\ Len(db.articles) = 1
    /\ db.articles[1].title = metadata[1].title

\* C6: after a run every section row carries the tags of the article row its
\* article field names: the label if one of the article's sections holds a
\* keyword, absent on all of them otherwise.
TagPropagation ==
    pc = "done" =>
        \A i \in DOMAIN file.articles :
            LET own == {n \in DOMAIN file.sections :
                           file.sections[n].article = file.articles[i].id}
            IN  /\ \A n \in own : file.sections[n].tags = file.articles[i].tags
                /\ file.articles[i].tags =
                       (IF \E n \in own : Matches(file.sections[n].text)
                        THEN TagLabel ELSE None)

SummaryCount ==
    LET stored == IF db.open THEN db.articles ELSE file.articles
    IN  \A i \in DOMAIN log :
            log[i].kind = "total" => log[i].count = Len(stored)

\* C9: a failing table creation is reported without raising; the other
\* creation is still attempted and the run proceeds.
CreateIndependent ==
    (\E i \in DOMAIN log : log[i].kind = "create_statement") =>
        /\ pc # "aborted"
        /\ error = "none"

Phase ==
    CASE pc \in {"start", "create_articles", "create_sections"} -> 1
      [] pc = "next_row" /\ index = 0 -> 2
      [] pc \in {"next_row", "insert_article", "insert_section", "commit"} -> 3
      [] pc = "close" -> 4
      [] pc = "done" -> 5
      [] OTHER -> 0

\* C10: a run goes through Init, SchemaReady, Streaming, Committed, Closed in
\* that order and never back; rows are written only in Streaming, the handle
\* is closed only after the commit, and the run eventually reaches Closed.
PhaseOrder ==
    [][ (runs' = runs /\ pc' # "aborted") =>
            /\ Phase' \in {Phase, Phase + 1}
            /\ (Len(db'.articles) > Len(db.articles) \/ Len(db'.sections) > Len(db.sections))
                   => (Phase \in {2, 3} /\ Phase' = 3)
            /\ (db.open /\ ~db'.open) => (Phase = 4 /\ Phase' = 5) ]_vars

\* a failing CREATE TABLE is left aside here: the run must reach Closed
\* whenever no table creation failed
OrchestratorPhases == PhaseOrder /\ <>(pc = "done" \/ error = "create")

====
